---- MODULE Spec2Model ----
(***************************************************************************)
(* CapLevelController (hls.js): caps the auto-selected rendition level to  *)
(* the size of the media element.  The controller's fields, the host       *)
(* (hls) fields it reads and writes, and the media element's geometry are  *)
(* the state; every event handler, the interval callback and the public    *)
(* getMaxLevel method are actions.  Level indices are 0-based as in the    *)
(* source; sequences are 1-based, so levels[i + 1] is the source's         *)
(* levels[i].                                                              *)
(***************************************************************************)
EXTENDS Integers, Sequences, FiniteSets, TLC

VARIABLES
    autoLevelCapping,       \* this.autoLevelCapping
    firstLevel,             \* this.firstLevel
    media,                  \* this.media: NoMedia or Video
    restrictedLevels,       \* this.restrictedLevels
    timer,                  \* this.timer: TRUE when an interval is armed
    clientRect,             \* this.clientRect: NoRect or a box
    streamController,       \* this.streamController is set
    destroyed,              \* this.hls = null, listeners removed
    levels,                 \* hls.levels
    hlsAutoLevelCapping,    \* hls.autoLevelCapping
    maxLevelCapping,        \* hls.maxLevelCapping
    capLevelToPlayerSize,   \* hls.config.capLevelToPlayerSize
    ignoreDevicePixelRatio, \* hls.config.ignoreDevicePixelRatio
    rect,                   \* media.getBoundingClientRect() of the element
    attrs,                  \* media.width / media.height attributes
    stopped,                \* a detach has stopped capping and no start followed
    restart,                \* the handler that last started capping after such a
                            \* stop, if the last step did: NoRestart otherwise
    prevCap,                \* the cap the previous evaluation of this capping
                            \* phase published, POSITIVE_INFINITY before the first
    out                     \* what the last handler did, in order

vars == <<autoLevelCapping, firstLevel, media, restrictedLevels, timer,
          clientRect, streamController, destroyed, levels,
          hlsAutoLevelCapping, maxLevelCapping, capLevelToPlayerSize,
          ignoreDevicePixelRatio, rect, attrs, stopped, restart, prevCap,
          out>>

ctrl == <<autoLevelCapping, firstLevel, media, restrictedLevels, timer,
          clientRect, streamController, destroyed>>
host == <<levels, hlsAutoLevelCapping>>
config == <<maxLevelCapping, capLevelToPlayerSize, ignoreDevicePixelRatio>>
surface == <<rect, attrs>>
ghost == <<stopped, restart, prevCap>>

(***************************************************************************)
(* Bounds of the model.                                                    *)
(***************************************************************************)
MaxDim == 2          \* the element's box has sides up to MaxDim
MaxLevels == 3       \* longest level list drawn for the selector

(***************************************************************************)
(* Program constants.                                                      *)
(***************************************************************************)
POSITIVE_INFINITY == 1000000
devicePixelRatio == 2

NoMedia == "null"
Video == "video"
NoRect == [width |-> -1, height |-> -1]
NoRestart == "none"

Box(w, h) == [width |-> w, height |-> h]
\* Boxes the page gives the element: not laid out, collapsed on one axis, or
\* a square of side 1..MaxDim.
Boxes == {Box(0, 0), Box(0, 1), Box(1, 0)} \cup {Box(d, d) : d \in 1..MaxDim}

Level(w, h, b) == [width |-> w, height |-> h, bitrate |-> b]

Min(a, b) == IF a <= b THEN a ELSE b

\* One observable effect of a handler: a host field written (hls.firstLevel is
\* only ever written, so the write is all the model keeps of it), the interval
\* armed or cleared, the stream controller notified, a method entered, a value
\* returned, an exception thrown.
Ev(e, v) == [ev |-> e, val |-> v]

Has(s, e) == \E k \in DOMAIN s : s[k].ev = e
Count(s, e) == Cardinality({k \in DOMAIN s : s[k].ev = e})
ValOf(s, e) == s[CHOOSE k \in DOMAIN s : s[k].ev = e].val

(***************************************************************************)
(* Surface measurement.                                                    *)
(***************************************************************************)
\* getDimensions with no cached box: the element's bounding box, or its width and
\* height attributes when the box is 0 x 0 (right - left is the box width, 0).
Measure(m) ==
    IF m = NoMedia THEN Box(0, 0)
    ELSE IF rect.width = 0 /\ rect.height = 0
         THEN Box(attrs.width, attrs.height)
         ELSE rect

getDimensions(cr, m) == IF cr # NoRect THEN cr ELSE Measure(m)

contentScaleFactor == IF ~ignoreDevicePixelRatio THEN devicePixelRatio ELSE 1

mediaWidth(cr, m) == getDimensions(cr, m).width * contentScaleFactor
mediaHeight(cr, m) == getDimensions(cr, m).height * contentScaleFactor

(***************************************************************************)
(* The selector.                                                           *)
(***************************************************************************)
isLevelAllowed(level, restricted) ==
    ~ \E k \in DOMAIN restricted :
          /\ level.bitrate = restricted[k].bitrate
          /\ level.width = restricted[k].width
          /\ level.height = restricted[k].height

\* A slip: the filter drops the excluded levels and forgets the ceiling.
validLevels_noceiling(lvls, capLevelIndex, restricted) ==
    SelectSeq(lvls, LAMBDA level : isLevelAllowed(level, restricted))

\* A slip: the filter keeps the levels under the ceiling, excluded or not.
validLevels_unfiltered(lvls, capLevelIndex, restricted) ==
    LET idx == SelectSeq([i \in 1..Len(lvls) |-> i],
                         LAMBDA i : i - 1 <= capLevelIndex)
    IN  [k \in 1..Len(idx) |-> lvls[idx[k]]]

\* lvls.filter((level, index) => isLevelAllowed(level) && index <= capLevelIndex)
validLevels(lvls, capLevelIndex, restricted) ==
    LET idx == SelectSeq([i \in 1..Len(lvls) |-> i],
                         LAMBDA i : /\ isLevelAllowed(lvls[i], restricted)
                                    /\ i - 1 <= capLevelIndex)
    IN  [k \in 1..Len(idx) |-> lvls[idx[k]]]

\* A slip: every level is taken to be the last of its size.
atGreatestBandwidth_always(lv, i) == TRUE

\* atGreatestBandwidth(lv[i], lv[i + 1]), i 1-based
atGreatestBandwidth(lv, i) ==
    IF i + 1 > Len(lv) THEN TRUE
    ELSE lv[i].width # lv[i + 1].width \/ lv[i].height # lv[i + 1].height

\* A slip: maxLevelIndex starts at 0, so the fallback is the first level.
getMaxLevelByMediaSize_first(lv, width, height) ==
    IF Len(lv) = 0 THEN -1
    ELSE LET hit(i) == /\ (lv[i].width >= width \/ lv[i].height >= height)
                       /\ atGreatestBandwidth(lv, i)
             hits == {i \in 1..Len(lv) : hit(i)}
         IN  IF hits = {} THEN 0
             ELSE (CHOOSE i \in hits : \A j \in hits : i <= j) - 1

getMaxLevelByMediaSize(lv, width, height) ==
    IF Len(lv) = 0 THEN -1
    ELSE LET hit(i) == /\ (lv[i].width >= width \/ lv[i].height >= height)
                       /\ atGreatestBandwidth(lv, i)
             hits == {i \in 1..Len(lv) : hit(i)}
         IN  IF hits = {} THEN Len(lv) - 1
             ELSE (CHOOSE i \in hits : \A j \in hits : i <= j) - 1

\* A slip: hls.maxLevelCapping is not applied.
getMaxLevel_noclamp(lvls, capLevelIndex, restricted) ==
    IF Len(lvls) = 0 THEN -1
    ELSE getMaxLevelByMediaSize(validLevels(lvls, capLevelIndex, restricted),
                                mediaWidth(NoRect, media),
                                mediaHeight(NoRect, media))

\* getMaxLevel's return value; it measures afresh (clientRect = null first).
getMaxLevel(lvls, capLevelIndex, restricted) ==
    IF Len(lvls) = 0 THEN -1
    ELSE LET maxLevelByMediaSize ==
                 getMaxLevelByMediaSize(validLevels(lvls, capLevelIndex, restricted),
                                        mediaWidth(NoRect, media),
                                        mediaHeight(NoRect, media))
         IN  IF maxLevelCapping # -1
             THEN Min(maxLevelCapping, maxLevelByMediaSize)
             ELSE maxLevelByMediaSize

\* this.clientRect once getMaxLevel has returned
rectAfterGetMaxLevel(lvls, cr) == IF Len(lvls) = 0 THEN cr ELSE Measure(media)

(***************************************************************************)
(* detectPlayerSize over hls.levels = lvls, from a cached box cr, a        *)
(* tracked cap prev and an exclusion list: the fields it leaves and what   *)
(* it did.                                                                 *)
(***************************************************************************)
\* A slip: >= for >, so an unchanged cap also notifies the stream controller.
detectPlayerSize_ge(lvls, cr, prev, restricted) ==
    IF media = NoMedia
    THEN [clientRect |-> cr, autoLevelCapping |-> prev,
          hlsAutoLevelCapping |-> hlsAutoLevelCapping, out |-> <<>>]
    ELSE LET cached == getDimensions(cr, media)
         IN  IF mediaHeight(cr, media) > 0 /\ mediaWidth(cr, media) > 0
                /\ Len(lvls) > 0
             THEN LET cap == getMaxLevel(lvls, Len(lvls) - 1, restricted)
                  IN  [clientRect |-> rectAfterGetMaxLevel(lvls, cached),
                       autoLevelCapping |-> cap,
                       hlsAutoLevelCapping |-> cap,
                       out |-> <<Ev("autoLevelCapping", cap)>> \o
                               (IF cap >= prev /\ streamController
                                THEN <<Ev("nextLevelSwitch", 0)>> ELSE <<>>)]
             ELSE [clientRect |-> cached, autoLevelCapping |-> prev,
                   hlsAutoLevelCapping |-> hlsAutoLevelCapping, out |-> <<>>]

detectPlayerSize(lvls, cr, prev, restricted) ==
    IF media = NoMedia
    THEN [clientRect |-> cr, autoLevelCapping |-> prev,
          hlsAutoLevelCapping |-> hlsAutoLevelCapping, out |-> <<>>]
    ELSE LET cached == getDimensions(cr, media)
         IN  IF mediaHeight(cr, media) > 0 /\ mediaWidth(cr, media) > 0
                /\ Len(lvls) > 0
             THEN LET cap == getMaxLevel(lvls, Len(lvls) - 1, restricted)
                  IN  [clientRect |-> rectAfterGetMaxLevel(lvls, cached),
                       autoLevelCapping |-> cap,
                       hlsAutoLevelCapping |-> cap,
                       out |-> <<Ev("autoLevelCapping", cap)>> \o
                               (IF cap > prev /\ streamController
                                THEN <<Ev("nextLevelSwitch", 0)>> ELSE <<>>)]
             ELSE [clientRect |-> cached, autoLevelCapping |-> prev,
                   hlsAutoLevelCapping |-> hlsAutoLevelCapping, out |-> <<>>]

(***************************************************************************)
(* startCapping / stopCapping as field updates.                            *)
(***************************************************************************)
\* A slip: the start arms the interval and leaves the first evaluation to its
\* first tick.
startCapping_lazy(lvls, first, restricted) ==
    IF timer
    THEN [autoLevelCapping |-> autoLevelCapping, timer |-> timer,
          clientRect |-> clientRect,
          hlsAutoLevelCapping |-> hlsAutoLevelCapping,
          out |-> <<Ev("startCapping", 0)>>,
          prevCap |-> prevCap]
    ELSE [autoLevelCapping |-> POSITIVE_INFINITY, timer |-> TRUE,
          clientRect |-> rectAfterGetMaxLevel(lvls, clientRect),
          hlsAutoLevelCapping |-> hlsAutoLevelCapping,
          out |-> <<Ev("startCapping", 0),
                    Ev("firstLevel", getMaxLevel(lvls, first, restricted)),
                    Ev("setInterval", 0)>>,
          prevCap |-> POSITIVE_INFINITY]

\* A slip: the early return on an armed timer is missing, so a second start
\* resets the cap, rewrites hls.firstLevel, replaces the interval and evaluates.
startCapping_rearm(lvls, first, restricted) ==
    LET hfl == getMaxLevel(lvls, first, restricted)
        d == detectPlayerSize(lvls, rectAfterGetMaxLevel(lvls, clientRect),
                              POSITIVE_INFINITY, restricted)
    IN  [autoLevelCapping |-> d.autoLevelCapping, timer |-> TRUE,
         clientRect |-> d.clientRect,
         hlsAutoLevelCapping |-> d.hlsAutoLevelCapping,
         out |-> <<Ev("startCapping", 0), Ev("firstLevel", hfl)>> \o
                 (IF timer THEN <<Ev("clearInterval", 0)>> ELSE <<>>) \o
                 <<Ev("setInterval", 0)>> \o d.out,
         prevCap |-> IF Has(d.out, "autoLevelCapping")
                     THEN d.hlsAutoLevelCapping ELSE POSITIVE_INFINITY]

\* The call is the first thing out records; clearInterval of the undefined
\* handle (line 179) does nothing.
startCapping(lvls, first, restricted) ==
    IF timer
    THEN [autoLevelCapping |-> autoLevelCapping, timer |-> timer,
          clientRect |-> clientRect,
          hlsAutoLevelCapping |-> hlsAutoLevelCapping,
          out |-> <<Ev("startCapping", 0)>>,
          prevCap |-> prevCap]
    ELSE LET hfl == getMaxLevel(lvls, first, restricted)
             d == detectPlayerSize(lvls, rectAfterGetMaxLevel(lvls, clientRect),
                                   POSITIVE_INFINITY, restricted)
         IN  [autoLevelCapping |-> d.autoLevelCapping, timer |-> TRUE,
              clientRect |-> d.clientRect,
              hlsAutoLevelCapping |-> d.hlsAutoLevelCapping,
              out |-> <<Ev("startCapping", 0), Ev("firstLevel", hfl),
                        Ev("setInterval", 0)>> \o d.out,
              prevCap |-> IF Has(d.out, "autoLevelCapping")
                          THEN d.hlsAutoLevelCapping ELSE POSITIVE_INFINITY]

stopCapping ==
    /\ restrictedLevels' = <<>>
    /\ firstLevel' = -1
    /\ autoLevelCapping' = POSITIVE_INFINITY
    /\ timer' = FALSE
    /\ out' = IF timer THEN <<Ev("clearInterval", 0)>> ELSE <<>>

(***************************************************************************)
(* Inputs.                                                                 *)
(***************************************************************************)
\* Level lists a manifest may carry: two renditions of one size (the same
\* triple twice) under a larger one, and a single level.
LadderA == <<Level(1, 1, 1), Level(1, 1, 1), Level(2, 2, 2)>>
LadderB == <<Level(2, 2, 1)>>
Ladders == {LadderA, LadderB}

\* The element: its box, and its width / height attributes (set on one element
\* that is not laid out).
Surfaces == {[rect |-> b, attrs |-> Box(0, 0)] : b \in Boxes}
            \cup {[rect |-> Box(0, 0), attrs |-> Box(1, 1)]}
Ceilings == {-1, 1}

(***************************************************************************)
(* Initial state: the constructor has run on a fresh host.                 *)
(***************************************************************************)
Constructed ==
    /\ autoLevelCapping = POSITIVE_INFINITY
    /\ firstLevel = -1
    /\ media = NoMedia
    /\ restrictedLevels = <<>>
    /\ timer = FALSE
    /\ clientRect = NoRect
    /\ streamController = FALSE
    /\ destroyed = FALSE
    /\ stopped = FALSE
    /\ restart = NoRestart
    /\ prevCap = POSITIVE_INFINITY
    /\ out = <<>>

Init ==
    /\ Constructed
    /\ levels = <<>>
    /\ hlsAutoLevelCapping = -1
    /\ maxLevelCapping \in Ceilings
    /\ capLevelToPlayerSize \in BOOLEAN
    /\ ignoreDevicePixelRatio \in BOOLEAN
    /\ rect = Box(0, 0)
    /\ attrs = Box(0, 0)

(***************************************************************************)
(* Handlers.                                                               *)
(***************************************************************************)
setStreamController ==
    /\ ~destroyed /\ ~streamController
    /\ streamController' = TRUE
    /\ restart' = NoRestart
    /\ out' = <<>>
    /\ UNCHANGED <<autoLevelCapping, firstLevel, media, restrictedLevels, timer,
                   clientRect, destroyed, stopped, prevCap, host, config,
                   surface>>

\* A slip: the list is assigned the dropped level instead of being pushed to.
onFpsDropLevelCapping_assign(droppedLevel) ==
    /\ ~destroyed
    /\ restart' = NoRestart
    /\ IF droppedLevel < 0 \/ droppedLevel >= Len(levels)
       THEN /\ out' = <<Ev("TypeError", 0)>>
            /\ UNCHANGED restrictedLevels
       ELSE LET level == levels[droppedLevel + 1]
            IN  /\ out' = <<>>
                /\ restrictedLevels' =
                       IF isLevelAllowed(level, restrictedLevels)
                       THEN <<[bitrate |-> level.bitrate,
                               height |-> level.height,
                               width |-> level.width]>>
                       ELSE restrictedLevels
    /\ UNCHANGED <<autoLevelCapping, firstLevel, media, timer, clientRect,
                   streamController, destroyed, stopped, prevCap, host, config,
                   surface>>

\* A slip: the level is pushed without asking isLevelAllowed.
onFpsDropLevelCapping_push(droppedLevel) ==
    /\ ~destroyed
    /\ restart' = NoRestart
    /\ IF droppedLevel < 0 \/ droppedLevel >= Len(levels)
       THEN /\ out' = <<Ev("TypeError", 0)>>
            /\ UNCHANGED restrictedLevels
       ELSE LET level == levels[droppedLevel + 1]
            IN  /\ out' = <<>>
                /\ restrictedLevels' =
                       Append(restrictedLevels,
                              [bitrate |-> level.bitrate,
                               height |-> level.height,
                               width |-> level.width])
    /\ UNCHANGED <<autoLevelCapping, firstLevel, media, timer, clientRect,
                   streamController, destroyed, stopped, prevCap, host, config,
                   surface>>

\* hls.levels[droppedLevel] is undefined out of range; reading its bitrate
\* throws, in isLevelAllowed's callback or in building the pushed object.
onFpsDropLevelCapping(droppedLevel) ==
    /\ ~destroyed
    /\ restart' = NoRestart
    /\ IF droppedLevel < 0 \/ droppedLevel >= Len(levels)
       THEN /\ out' = <<Ev("TypeError", 0)>>
            /\ UNCHANGED restrictedLevels
       ELSE LET level == levels[droppedLevel + 1]
            IN  /\ out' = <<>>
                /\ restrictedLevels' =
                       IF isLevelAllowed(level, restrictedLevels)
                       THEN Append(restrictedLevels,
                                   [bitrate |-> level.bitrate,
                                    height |-> level.height,
                                    width |-> level.width])
                       ELSE restrictedLevels
    /\ UNCHANGED <<autoLevelCapping, firstLevel, media, timer, clientRect,
                   streamController, destroyed, stopped, prevCap, host, config,
                   surface>>

onMediaAttaching(m) ==
    /\ ~destroyed
    /\ media' = m
    /\ clientRect' = NoRect
    /\ restart' = NoRestart
    /\ out' = <<>>
    /\ UNCHANGED <<autoLevelCapping, firstLevel, restrictedLevels, timer,
                   streamController, destroyed, stopped, prevCap, host, config,
                   surface>>

\* A slip: the reset and the recorded firstLevel sit inside the test, so a
\* manifest without video (or with capping off) leaves both as they were.
onManifestParsed_gated(lvls, first, video) ==
    /\ ~destroyed
    /\ levels' = lvls
    /\ IF capLevelToPlayerSize /\ video
       THEN LET s == startCapping(lvls, first, <<>>)
            IN  /\ restrictedLevels' = <<>>
                /\ firstLevel' = first
                /\ autoLevelCapping' = s.autoLevelCapping
                /\ timer' = s.timer
                /\ clientRect' = s.clientRect
                /\ hlsAutoLevelCapping' = s.hlsAutoLevelCapping
                /\ out' = s.out
                /\ stopped' = IF timer THEN stopped ELSE FALSE
                /\ prevCap' = s.prevCap
                /\ restart' = IF ~timer /\ stopped THEN "manifestParsed" ELSE NoRestart
       ELSE /\ out' = <<>>
            /\ restart' = NoRestart
            /\ UNCHANGED <<restrictedLevels, firstLevel, autoLevelCapping, timer,
                           clientRect, hlsAutoLevelCapping, stopped, prevCap>>
    /\ UNCHANGED <<media, streamController, destroyed, config, surface>>

\* A slip: the exclusion list is not reset for the new manifest.
onManifestParsed_keep(lvls, first, video) ==
    /\ ~destroyed
    /\ levels' = lvls
    /\ UNCHANGED restrictedLevels
    /\ firstLevel' = first
    /\ IF capLevelToPlayerSize /\ video
       THEN LET s == startCapping(lvls, first, restrictedLevels)
            IN  /\ autoLevelCapping' = s.autoLevelCapping
                /\ timer' = s.timer
                /\ clientRect' = s.clientRect
                /\ hlsAutoLevelCapping' = s.hlsAutoLevelCapping
                /\ out' = s.out
                /\ stopped' = IF timer THEN stopped ELSE FALSE
                /\ prevCap' = s.prevCap
                /\ restart' = IF ~timer /\ stopped THEN "manifestParsed" ELSE NoRestart
       ELSE /\ out' = <<>>
            /\ restart' = NoRestart
            /\ UNCHANGED <<autoLevelCapping, timer, clientRect,
                           hlsAutoLevelCapping, stopped, prevCap>>
    /\ UNCHANGED <<media, streamController, destroyed, config, surface>>

\* The level controller installs the parsed levels, then MANIFEST_PARSED fires.
onManifestParsed(lvls, first, video) ==
    /\ ~destroyed
    /\ levels' = lvls
    /\ restrictedLevels' = <<>>
    /\ firstLevel' = first
    /\ IF capLevelToPlayerSize /\ video
       THEN LET s == startCapping(lvls, first, <<>>)
            IN  /\ autoLevelCapping' = s.autoLevelCapping
                /\ timer' = s.timer
                /\ clientRect' = s.clientRect
                /\ hlsAutoLevelCapping' = s.hlsAutoLevelCapping
                /\ out' = s.out
                /\ stopped' = IF timer THEN stopped ELSE FALSE
                /\ prevCap' = s.prevCap
                /\ restart' = IF ~timer /\ stopped THEN "manifestParsed" ELSE NoRestart
       ELSE /\ out' = <<>>
            /\ restart' = NoRestart
            /\ UNCHANGED <<autoLevelCapping, timer, clientRect,
                           hlsAutoLevelCapping, stopped, prevCap>>
    /\ UNCHANGED <<media, streamController, destroyed, config, surface>>

\* A slip: data.video is not tested, so audio-only codecs start capping too.
onBufferCodecs_anyCodecs(video) ==
    /\ ~destroyed
    /\ IF capLevelToPlayerSize
       THEN LET s == startCapping(levels, firstLevel, restrictedLevels)
            IN  /\ autoLevelCapping' = s.autoLevelCapping
                /\ timer' = s.timer
                /\ clientRect' = s.clientRect
                /\ hlsAutoLevelCapping' = s.hlsAutoLevelCapping
                /\ out' = s.out
                /\ stopped' = IF timer THEN stopped ELSE FALSE
                /\ prevCap' = s.prevCap
                /\ restart' = IF ~timer /\ stopped THEN "bufferCodecs" ELSE NoRestart
       ELSE /\ out' = <<>>
            /\ restart' = NoRestart
            /\ UNCHANGED <<autoLevelCapping, timer, clientRect,
                           hlsAutoLevelCapping, stopped, prevCap>>
    /\ UNCHANGED <<firstLevel, media, restrictedLevels, streamController,
                   destroyed, levels, config, surface>>

onBufferCodecs(video) ==
    /\ ~destroyed
    /\ IF capLevelToPlayerSize /\ video
       THEN LET s == startCapping(levels, firstLevel, restrictedLevels)
            IN  /\ autoLevelCapping' = s.autoLevelCapping
                /\ timer' = s.timer
                /\ clientRect' = s.clientRect
                /\ hlsAutoLevelCapping' = s.hlsAutoLevelCapping
                /\ out' = s.out
                /\ stopped' = IF timer THEN stopped ELSE FALSE
                /\ prevCap' = s.prevCap
                /\ restart' = IF ~timer /\ stopped THEN "bufferCodecs" ELSE NoRestart
       ELSE /\ out' = <<>>
            /\ restart' = NoRestart
            /\ UNCHANGED <<autoLevelCapping, timer, clientRect,
                           hlsAutoLevelCapping, stopped, prevCap>>
    /\ UNCHANGED <<firstLevel, media, restrictedLevels, streamController,
                   destroyed, levels, config, surface>>

onMediaDetaching ==
    /\ ~destroyed
    /\ stopCapping
    /\ stopped' = TRUE
    /\ restart' = NoRestart
    /\ prevCap' = POSITIVE_INFINITY
    /\ UNCHANGED <<media, clientRect, streamController, destroyed, host,
                   config, surface>>

\* The interval armed by startCapping fires.
Tick ==
    /\ timer
    /\ LET d == detectPlayerSize(levels, clientRect, autoLevelCapping,
                                 restrictedLevels)
       IN  /\ clientRect' = d.clientRect
           /\ autoLevelCapping' = d.autoLevelCapping
           /\ hlsAutoLevelCapping' = d.hlsAutoLevelCapping
           /\ out' = d.out
           /\ prevCap' = IF Has(d.out, "autoLevelCapping")
                         THEN d.hlsAutoLevelCapping ELSE prevCap
    /\ restart' = NoRestart
    /\ UNCHANGED <<firstLevel, media, restrictedLevels, timer, streamController,
                   destroyed, stopped, levels, config, surface>>

\* A second destroy reads this.hls = null in unregisterListener and throws.
destroy ==
    /\ restart' = NoRestart
    /\ IF destroyed
       THEN /\ out' = <<Ev("TypeError", 0)>>
            /\ UNCHANGED <<ctrl, stopped, prevCap>>
       ELSE /\ IF capLevelToPlayerSize
               THEN stopCapping
               ELSE /\ out' = <<>>
                    /\ UNCHANGED <<restrictedLevels, firstLevel,
                                   autoLevelCapping, timer>>
            /\ media' = NoMedia
            /\ clientRect' = NoRect
            /\ streamController' = FALSE
            /\ destroyed' = TRUE
            /\ stopped' = FALSE
            /\ prevCap' = POSITIVE_INFINITY
    /\ UNCHANGED <<host, config, surface>>

\* The page lays the element out anew.
Resize(s) ==
    /\ ~destroyed
    /\ s # [rect |-> rect, attrs |-> attrs]
    /\ rect' = s.rect
    /\ attrs' = s.attrs
    /\ restart' = NoRestart
    /\ out' = <<>>
    /\ UNCHANGED <<ctrl, stopped, prevCap, host, config>>

Next ==
    \/ setStreamController
    \/ \E i \in -1..Len(levels) : onFpsDropLevelCapping(i)
    \/ \E m \in {NoMedia, Video} : onMediaAttaching(m)
    \/ \E lvls \in Ladders, video \in BOOLEAN :
           \E first \in 0..Len(lvls) - 1 : onManifestParsed(lvls, first, video)
    \/ \E video \in BOOLEAN : onBufferCodecs(video)
    \/ onMediaDetaching
    \/ Tick
    \/ destroy
    \/ \E s \in Surfaces : Resize(s)

Spec == Init /\ [][Next]_vars

(***************************************************************************)
(* The selector on its own: a video element is attached, a level list is   *)
(* installed with capLevelToPlayerSize off, and then getMaxLevel (a public *)
(* method) is called with any ceiling, between FPS drops.                  *)
(***************************************************************************)
Rungs == UNION {{Level(1, 1, b), Level(1, 2, b), Level(2, 2, b)} : b \in 1..2}

\* The level controller keeps hls.levels in ascending bitrate order.
LevelLists ==
    {l \in UNION {[1..n -> Rungs] : n \in 0..MaxLevels} :
        \A i \in 1..Len(l) - 1 : l[i].bitrate <= l[i + 1].bitrate}

InitSel ==
    /\ autoLevelCapping = POSITIVE_INFINITY
    /\ levels \in LevelLists
    /\ firstLevel = IF Len(levels) = 0 THEN -1 ELSE 0
    /\ media = Video
    /\ restrictedLevels = <<>>
    /\ timer = FALSE
    /\ clientRect = NoRect
    /\ streamController = FALSE
    /\ destroyed = FALSE
    /\ stopped = FALSE
    /\ restart = NoRestart
    /\ prevCap = POSITIVE_INFINITY
    /\ out = <<>>
    /\ hlsAutoLevelCapping = -1
    /\ maxLevelCapping \in Ceilings
    /\ capLevelToPlayerSize = FALSE
    /\ ignoreDevicePixelRatio = FALSE
    /\ rect \in Boxes
    /\ attrs = Box(0, 0)

getMaxLevelCall(capLevelIndex) ==
    /\ ~destroyed
    /\ clientRect' = rectAfterGetMaxLevel(levels, clientRect)
    /\ out' = <<Ev("getMaxLevel", capLevelIndex),
                Ev("return", getMaxLevel(levels, capLevelIndex, restrictedLevels))>>
    /\ restart' = NoRestart
    /\ UNCHANGED <<autoLevelCapping, firstLevel, media, restrictedLevels, timer,
                   streamController, destroyed, stopped, prevCap, host, config,
                   surface>>

NextSel ==
    \/ \E c \in -1..Len(levels) - 1 : getMaxLevelCall(c)
    \/ \E i \in -1..Len(levels) : onFpsDropLevelCapping(i)

SpecSel == InitSel /\ [][NextSel]_vars

(***************************************************************************)
(* Vocabulary of the properties.                                           *)
(***************************************************************************)
Called == Has(out, "return")
Ret == ValOf(out, "return")
Ceiling == ValOf(out, "getMaxLevel")

\* The footprint a fresh measurement gives now.
TargetWidth == Measure(media).width * contentScaleFactor
TargetHeight == Measure(media).height * contentScaleFactor
Covers(l) == l.width >= TargetWidth \/ l.height >= TargetHeight
SameSize(a, b) == a.width = b.width /\ a.height = b.height

Triple(l) == <<l.bitrate, l.width, l.height>>
Excluded == {Triple(restrictedLevels[k]) : k \in DOMAIN restrictedLevels}

\* Positions (0-based, in hls.levels) of the candidates under ceiling c.
CandPos(c) == {i \in 0..Len(levels) - 1 :
                  i <= c /\ Triple(levels[i + 1]) \notin Excluded}
MinOf(S) == CHOOSE i \in S : \A j \in S : i <= j
MaxOf(S) == CHOOSE i \in S : \A j \in S : i >= j
\* The position of the k-th candidate (k 0-based).
PosOf(c, k) == CHOOSE i \in CandPos(c) :
                   Cardinality({j \in CandPos(c) : j < i}) = k
\* Candidate i is the last of its size: the next candidate, if any, differs.
LastOfSize(c, i) ==
    LET later == {j \in CandPos(c) : j > i}
    IN  later = {} \/ ~SameSize(levels[i + 1], levels[MinOf(later) + 1])
Qualifying(c) == {i \in CandPos(c) : Covers(levels[i + 1]) /\ LastOfSize(c, i)}
Covering(c) == {i \in CandPos(c) : Covers(levels[i + 1])}

NonDecreasing(l) ==
    \A i \in 1..Len(l) - 1 :
        l[i].width <= l[i + 1].width /\ l[i].height <= l[i + 1].height

\* C1: with no explicit ceiling, getMaxLevel returns the position in hls.levels
\* of the first qualifying candidate, or of the last candidate when none
\* qualifies (-1 when there is no candidate).
C1_IndexMapping ==
    (Called /\ maxLevelCapping = -1) =>
        Ret = IF CandPos(Ceiling) = {} THEN -1
              ELSE IF Qualifying(Ceiling) # {} THEN MinOf(Qualifying(Ceiling))
              ELSE MaxOf(CandPos(Ceiling))

\* C2: with no explicit ceiling, an index >= 0 returned by getMaxLevel names a
\* level of hls.levels whose (bitrate, width, height) is not excluded.
C2_ExclusionRespected ==
    (Called /\ maxLevelCapping = -1 /\ Ret >= 0) =>
        /\ Ret < Len(levels)
        /\ Triple(levels[Ret + 1]) \notin Excluded

\* C3: with nothing excluded, no explicit ceiling and level sizes non-decreasing
\* in index order, getMaxLevel returns a candidate that covers the footprint
\* on one axis when some candidate does, and the highest candidate otherwise.
C3_MonotonicCoverage ==
    (/\ Called /\ maxLevelCapping = -1 /\ restrictedLevels = <<>>
     /\ NonDecreasing(levels) /\ CandPos(Ceiling) # {}) =>
        /\ Ret \in CandPos(Ceiling)
        /\ IF Covering(Ceiling) # {}
           THEN Covers(levels[Ret + 1])
           ELSE Ret = MaxOf(CandPos(Ceiling))

\* A footprint larger than each of two or more levels: the last one is returned.
C3_Witness ==
    /\ Called /\ maxLevelCapping = -1 /\ restrictedLevels = <<>>
    /\ NonDecreasing(levels) /\ Len(levels) >= 2 /\ Ceiling = Len(levels) - 1
    /\ Covering(Ceiling) = {} /\ Ret = Len(levels) - 1

\* C4: the candidate getMaxLevel selects (the Ret-th of the candidate list) is
\* never directly followed by a candidate of the same size; when some candidate
\* covers the footprint, it is the last of the run of same-size candidates that
\* starts at the first covering candidate.
C4_GreatestBandwidth ==
    (Called /\ maxLevelCapping = -1 /\ Ret >= 0) =>
        LET c == Ceiling
            sel == PosOf(c, Ret)
        IN  /\ Ret < Cardinality(CandPos(c))
            /\ LastOfSize(c, sel)
            /\ Covering(c) # {} =>
                  LET f == MinOf(Covering(c))
                  IN  /\ sel >= f
                      /\ \A j \in CandPos(c) :
                             (f <= j /\ j <= sel) =>
                                 SameSize(levels[j + 1], levels[f + 1])

\* The selector passed over a covering candidate for a later one of its size.
C4_Witness ==
    /\ Called /\ maxLevelCapping = -1 /\ Ret >= 1
    /\ Covering(Ceiling) # {}
    /\ PosOf(Ceiling, Ret) > MinOf(Covering(Ceiling))

(***************************************************************************)
(* Properties of the capping loop (Spec).                                  *)
(***************************************************************************)
Evaluated(o) == Has(o, "autoLevelCapping")
Started(o) == Has(o, "setInterval")
ZeroSized == TargetWidth = 0 \/ TargetHeight = 0
\* What getMaxLevelByMediaSize gives for all levels not excluded, now.
SizeCap ==
    getMaxLevelByMediaSize(validLevels(levels, Len(levels) - 1, restrictedLevels),
                           TargetWidth, TargetHeight)

\* C5: a step's evaluation notifies the stream controller (nextLevelSwitch)
\* exactly once, after publishing the cap, when a stream controller is set and
\* the published cap exceeds the cap of the previous evaluation of this capping
\* phase (+infinity for the evaluation made by the start); in no other step is
\* it notified.
C5_LooseningSwitch ==
    [][LET base == IF Started(out') THEN POSITIVE_INFINITY ELSE prevCap
           loosened == /\ Evaluated(out') /\ streamController
                       /\ hlsAutoLevelCapping' > base
       IN  /\ Count(out', "nextLevelSwitch") = (IF loosened THEN 1 ELSE 0)
           /\ Evaluated(out') =>
                 ValOf(out', "autoLevelCapping") = hlsAutoLevelCapping'
           /\ \A i, j \in DOMAIN out' :
                 (out'[i].ev = "nextLevelSwitch"
                  /\ out'[j].ev = "autoLevelCapping") => j < i]_vars

\* A tick has raised the cap and notified the stream controller.
C5_Witness ==
    /\ Has(out, "nextLevelSwitch") /\ ~Started(out)
    /\ hlsAutoLevelCapping = 2 /\ timer

\* C6: a tick at which the element measures zero wide or zero high leaves
\* hls.autoLevelCapping and the tracked cap as they were and does not notify
\* the stream controller.
C6_ZeroSizeSkip ==
    [][(Tick /\ ZeroSized) =>
           /\ hlsAutoLevelCapping' = hlsAutoLevelCapping
           /\ autoLevelCapping' = autoLevelCapping
           /\ ~Has(out', "nextLevelSwitch")]_vars

\* C7: an FPS drop for an index outside hls.levels changes nothing and throws
\* nothing.
C7_OutOfRangeDrop ==
    [][\A i \in {-1, Len(levels)} :
           onFpsDropLevelCapping(i) =>
               /\ UNCHANGED <<ctrl, host>>
               /\ ~Has(out', "TypeError")]_vars

\* C8: the exclusion list never holds the same (bitrate, width, height) twice,
\* and an FPS drop for a level whose triple it holds leaves it as it is.
NoDuplicates(r) ==
    \A i, j \in DOMAIN r : Triple(r[i]) = Triple(r[j]) => i = j
C8_NoDuplicates ==
    [][/\ NoDuplicates(restrictedLevels')
       /\ \A i \in 0..Len(levels) - 1 :
              (onFpsDropLevelCapping(i) /\ Triple(levels[i + 1]) \in Excluded)
                  => UNCHANGED restrictedLevels]_vars

\* Two indices of hls.levels carry one triple, and it is excluded, once.
C8_Witness ==
    /\ \E i, j \in 1..Len(levels) :
          /\ i # j /\ Triple(levels[i]) = Triple(levels[j])
          /\ Triple(levels[i]) \in Excluded
    /\ Len(restrictedLevels) = 2

\* C9: after an evaluation the published cap is min(hls.maxLevelCapping, the
\* size-based cap) when hls.maxLevelCapping is set, and the size-based cap
\* when it is -1.
C9_CeilingClamp ==
    Evaluated(out) =>
        /\ hlsAutoLevelCapping = ValOf(out, "autoLevelCapping")
        /\ IF maxLevelCapping # -1
           THEN /\ hlsAutoLevelCapping = Min(maxLevelCapping, SizeCap)
                /\ hlsAutoLevelCapping <= maxLevelCapping
           ELSE hlsAutoLevelCapping = SizeCap

\* The size alone allows level 2 and hls.maxLevelCapping = 1 is published.
C9_Witness ==
    /\ Evaluated(out) /\ maxLevelCapping = 1
    /\ SizeCap = 2 /\ hlsAutoLevelCapping = 1

\* C10, as claimed: once a MANIFEST_PARSED with video has started capping again
\* after a stop, the exclusion list is empty and the cap is +infinity.
C10_ResetOnRestart ==
    restart = "manifestParsed" =>
        /\ restrictedLevels = <<>>
        /\ autoLevelCapping = POSITIVE_INFINITY

\* C10, amended: once a MANIFEST_PARSED with video has started capping again
\* after a stop, the exclusion list is empty, and the tracked cap is +infinity
\* if the start's own evaluation was skipped and otherwise the cap that
\* evaluation has just published; the stream controller is not notified.
C10_RestartFresh ==
    restart = "manifestParsed" =>
        /\ restrictedLevels = <<>>
        /\ timer /\ Started(out)
        /\ ~Has(out, "nextLevelSwitch")
        /\ IF Evaluated(out)
           THEN /\ autoLevelCapping = ValOf(out, "autoLevelCapping")
                /\ autoLevelCapping = hlsAutoLevelCapping
           ELSE autoLevelCapping = POSITIVE_INFINITY

\* A restart whose own evaluation published a cap.
C10_Witness ==
    restart = "manifestParsed" /\ Evaluated(out) /\ streamController

\* C11: a start (MANIFEST_PARSED or BUFFER_CODECS with video, capping enabled)
\* that finds the interval armed does nothing but return: the tracked and
\* published caps, the cached box and the interval are as before, hls.firstLevel
\* is not written and no evaluation runs. this.timer is the only interval
\* alive: a step arms one only from a state with none armed, arms one at most,
\* and drops the handle only by clearing the interval.
Reentered(o) == Has(o, "startCapping") /\ ~Started(o)
C11_ReentrantStart ==
    [][/\ ((/\ timer /\ capLevelToPlayerSize
            /\ \/ onBufferCodecs(TRUE)
               \/ \E lvls \in Ladders : \E first \in 0..Len(lvls) - 1 :
                      onManifestParsed(lvls, first, TRUE)) =>
               /\ UNCHANGED <<autoLevelCapping, hlsAutoLevelCapping, timer,
                              clientRect, prevCap>>
               /\ out' = <<Ev("startCapping", 0)>>)
       /\ Started(out') =>
              ~timer /\ timer' /\ Count(out', "setInterval") = 1
       /\ (timer /\ ~timer') => Has(out', "clearInterval")
       /\ Has(out', "clearInterval") => (timer /\ ~timer')]_vars

\* BUFFER_CODECS with video has arrived while capping: a cap is published,
\* the interval is armed and the start has only returned.
C11_Witness ==
    /\ Reentered(out) /\ out = <<Ev("startCapping", 0)>>
    /\ timer /\ hlsAutoLevelCapping >= 0 /\ autoLevelCapping = hlsAutoLevelCapping

\* C12: destroy raises nothing in whatever state it is called, the controller
\* already destroyed included; it leaves no interval armed and no element or
\* cached box held; and once the controller is destroyed no step changes
\* hls.autoLevelCapping.
C12_DestroySafe ==
    [][/\ destroy =>
              /\ ~Has(out', "TypeError")
              /\ ~timer' /\ media' = NoMedia /\ clientRect' = NoRect
       /\ destroyed => hlsAutoLevelCapping' = hlsAutoLevelCapping]_vars

(***************************************************************************)
(* More of the selector (SpecSel).                                         *)
(***************************************************************************)
\* C13: with hls.maxLevelCapping unset or >= 0, getMaxLevel returns -1 exactly
\* when no level at or below the ceiling is left unexcluded (hls.levels empty,
\* all such levels excluded, or a negative ceiling), and an index >= 0
\* otherwise; it throws in neither case.
C13_NoUsableRung ==
    (Called /\ maxLevelCapping >= -1) =>
        /\ Ret = -1 <=> CandPos(Ceiling) = {}
        /\ Ret >= -1
        /\ ~Has(out, "TypeError")

\* Every level under a ceiling >= 0 is excluded, and -1 is returned.
C13_Witness ==
    /\ Called /\ Ret = -1
    /\ Len(levels) >= 2 /\ Ceiling >= 1
    /\ Len(restrictedLevels) >= 1 /\ CandPos(Ceiling) = {}

(***************************************************************************)
(* More of the capping loop (Spec).                                        *)
(***************************************************************************)
\* The cached box is zero wide or zero high: an evaluation that measured the
\* element so has been skipped, or a getMaxLevel has measured it so.
CachedZero == clientRect # NoRect /\ (clientRect.width = 0 \/ clientRect.height = 0)

\* C14: a tick that finds a zero-sized box cached while the same element now
\* measures non-zero on both axes (and hls.levels is not empty) measures
\* afresh, runs getMaxLevel and publishes its cap: a cached zero-sized box
\* never makes a later tick skip.
C14_SkippedTickRetried ==
    [][(/\ Tick /\ media # NoMedia /\ Len(levels) > 0
        /\ CachedZero /\ ~ZeroSized) =>
           /\ Evaluated(out')
           /\ clientRect' = Measure(media)
           /\ hlsAutoLevelCapping' = ValOf(out', "autoLevelCapping")]_vars

\* hls.autoLevelCapping says "no cap": -1, or the +infinity of the tracked cap.
Uncapped(c) == c = -1 \/ c = POSITIVE_INFINITY

\* C15: a stop (MEDIA_DETACHING, or destroy), capping or not, leaves the
\* exclusion list empty, the tracked firstLevel at -1, the tracked cap at
\* +infinity, hls.autoLevelCapping uncapped and no interval armed; it throws
\* nothing, and with no interval armed it clears none.
C15_StopPostcondition ==
    [][(onMediaDetaching \/ destroy) =>
           /\ restrictedLevels' = <<>>
           /\ firstLevel' = -1
           /\ autoLevelCapping' = POSITIVE_INFINITY
           /\ Uncapped(hlsAutoLevelCapping')
           /\ ~timer'
           /\ ~Has(out', "TypeError")
           /\ ~timer => ~Has(out', "clearInterval")]_vars

\* C16: a step that starts capping arms the interval and evaluates before it
\* returns, from a tracked cap of +infinity: if an element is attached that
\* measures non-zero on both axes and hls.levels is not empty, the cap is
\* published, it is getMaxLevel(levels.length - 1) and the tracked cap equals
\* it; otherwise nothing is published and the tracked cap is +infinity. The
\* stream controller is not notified, +infinity being the cap to exceed.
C16_StartEntry ==
    Started(out) =>
        /\ timer
        /\ ~Has(out, "nextLevelSwitch")
        /\ IF media # NoMedia /\ ~ZeroSized /\ Len(levels) > 0
           THEN /\ Evaluated(out)
                /\ hlsAutoLevelCapping =
                       getMaxLevel(levels, Len(levels) - 1, restrictedLevels)
                /\ autoLevelCapping = hlsAutoLevelCapping
           ELSE /\ ~Evaluated(out)
                /\ autoLevelCapping = POSITIVE_INFINITY

\* A start on three levels and a measurable element has published cap 2.
C16_Witness ==
    /\ Started(out) /\ Evaluated(out) /\ timer
    /\ ~ZeroSized /\ Len(levels) = 3 /\ hlsAutoLevelCapping = 2

\* The step is a MANIFEST_PARSED or a BUFFER_CODECS carrying video = v.
Notified(v) ==
    \/ onBufferCodecs(v)
    \/ \E lvls \in Ladders : \E first \in 0..Len(lvls) - 1 :
           onManifestParsed(lvls, first, v)

\* C17: the interval becomes armed only in a MANIFEST_PARSED or BUFFER_CODECS
\* step with video, capLevelToPlayerSize being on. A notification without
\* video arms nothing and writes neither hls.autoLevelCapping nor
\* hls.firstLevel; with capLevelToPlayerSize off no step does. hls.firstLevel
\* is written only by a step that arms the interval, hls.autoLevelCapping only
\* by such a step or a tick of the armed interval.
C17_StartGated ==
    [][/\ (~timer /\ timer') => (capLevelToPlayerSize /\ Notified(TRUE))
       /\ Notified(FALSE) =>
              /\ UNCHANGED <<timer, hlsAutoLevelCapping, autoLevelCapping>>
              /\ ~Has(out', "firstLevel") /\ ~Evaluated(out')
              /\ ~Started(out')
       /\ ~capLevelToPlayerSize =>
              /\ ~timer /\ ~timer'
              /\ hlsAutoLevelCapping' = hlsAutoLevelCapping
              /\ ~Has(out', "firstLevel") /\ ~Evaluated(out')
       /\ Has(out', "firstLevel") => Started(out')
       /\ hlsAutoLevelCapping' # hlsAutoLevelCapping =>
              Evaluated(out') /\ (Started(out') \/ (timer /\ Tick))]_vars

\* With capping enabled and a measurable element attached, a manifest without
\* video has installed its levels and its firstLevel, and nothing has started.
C17_Witness ==
    /\ capLevelToPlayerSize /\ ~destroyed /\ ~stopped
    /\ media = Video /\ ~ZeroSized
    /\ Len(levels) = 3 /\ firstLevel >= 0
    /\ ~timer /\ out = <<>>
    /\ hlsAutoLevelCapping = -1 /\ autoLevelCapping = POSITIVE_INFINITY

\* C18: every MANIFEST_PARSED, capping or not, with or without video, with
\* capLevelToPlayerSize on or off, empties the exclusion list and records its
\* firstLevel; arriving while the interval is armed it changes nothing else
\* of the controller and writes nothing to the host's cap or firstLevel.
C18_ManifestResets ==
    [][\A lvls \in Ladders : \A first \in 0..Len(lvls) - 1 :
         \A video \in BOOLEAN :
           onManifestParsed(lvls, first, video) =>
               /\ restrictedLevels' = <<>>
               /\ firstLevel' = first
               /\ timer =>
                      /\ UNCHANGED <<autoLevelCapping, timer, clientRect, media,
                                     streamController, hlsAutoLevelCapping>>
                      /\ ~Has(out', "firstLevel") /\ ~Evaluated(out')
                      /\ ~Started(out')]_vars

\* A new one-level manifest has arrived while capping on cap 2: the interval
\* and the caps are as they were, the exclusion list is empty.
C18_Witness ==
    /\ timer /\ Reentered(out)
    /\ Len(levels) = 1 /\ hlsAutoLevelCapping = 2 /\ autoLevelCapping = 2
    /\ restrictedLevels = <<>> /\ firstLevel = 0

IsPrefix(a, b) == Len(a) <= Len(b) /\ \A i \in 1..Len(a) : a[i] = b[i]
ManifestStep ==
    \E lvls \in Ladders : \E first \in 0..Len(lvls) - 1 : \E video \in BOOLEAN :
        onManifestParsed(lvls, first, video)

\* C19, as claimed: a MANIFEST_PARSED step empties the exclusion list, and
\* every other step (tick, start, FPS drop, attach, detach, destroy) leaves
\* the entries it held in place, adding at the end at most.
C19_AppendOnly ==
    [][IF ManifestStep THEN restrictedLevels' = <<>>
       ELSE IsPrefix(restrictedLevels, restrictedLevels')]_vars

\* C19, amended: the exclusion list is emptied by MANIFEST_PARSED and by a
\* stop (MEDIA_DETACHING, or the destroy of a controller with
\* capLevelToPlayerSize on); every step that is neither leaves the entries it
\* held in place, adding at the end at most, so the list survives every
\* evaluation.
StopStep == onMediaDetaching \/ (destroy /\ ~destroyed /\ capLevelToPlayerSize)
C19_ClearedByManifestOrStop ==
    [][IF ManifestStep \/ StopStep THEN restrictedLevels' = <<>>
       ELSE IsPrefix(restrictedLevels, restrictedLevels')]_vars

\* A tick has evaluated, and published a cap, with two exclusions in place.
C19_Witness ==
    /\ timer /\ Evaluated(out) /\ ~Started(out)
    /\ Len(restrictedLevels) = 2

\* C20: what getMaxLevel returns lies between -1 and its ceiling, and below
\* the number of levels. A start calls it under the recorded firstLevel and
\* writes the result to hls.firstLevel, so that value is in -1..firstLevel;
\* an evaluation calls it under levels.length - 1 and publishes the result,
\* so hls.autoLevelCapping is then in -1..levels.length - 1.
C20_BoundedByCeiling ==
    /\ Has(out, "firstLevel") =>
           LET r == ValOf(out, "firstLevel")
           IN  -1 <= r /\ r <= firstLevel /\ r <= Len(levels) - 1
    /\ Evaluated(out) =>
           /\ hlsAutoLevelCapping = ValOf(out, "autoLevelCapping")
           /\ -1 <= hlsAutoLevelCapping
           /\ hlsAutoLevelCapping <= Len(levels) - 1

\* A start under firstLevel = 1 on three levels, none of which covers the
\* element: hls.firstLevel is written 1 and the cap published is 2.
C20_Witness ==
    /\ Has(out, "firstLevel") /\ ValOf(out, "firstLevel") = 1 /\ firstLevel = 1
    /\ Evaluated(out) /\ hlsAutoLevelCapping = 2 /\ Len(levels) = 3

====
